---- MODULE Spec2Model ----
(***************************************************************************)
(* Verification model of the hallucination-resistant RAG project           *)
(* (src/projects/hallucination-resistant-rag/src).                         *)
(*                                                                         *)
(* The module holds several specifications over one set of variables:      *)
(*   SpecConf    decision.calculateConfidence as a pure function           *)
(*   SpecSearch  retrieve.searchFaiss over a flat L2 index                 *)
(*   SpecLLM     llm.generateAnswer against a fallible generation backend  *)
(*   Spec        the session store and the HTTP handlers of api.py over a  *)
(*               filesystem, with the orchestration of main.py             *)
(*   SpecUpload  a sequence of upload.saveUploadedPdf calls of one session *)
(*   SpecRag     main.runRAGSystem over the default documents folder       *)
(* Every specification leaves the variables of the others at "idle".       *)
(***************************************************************************)
EXTENDS Integers, Sequences, FiniteSets, TLC

VARIABLES
    cIn, cOut,      \* SpecConf: input (distances, threshold) and result
    sIn, sOut,      \* SpecSearch: input (index, metadata, query, topK) and result
    lIn, lOut,      \* SpecLLM: input (context, question, backend outcome) and result
    fs,             \* Spec: the filesystem, path -> node
    resp,           \* Spec: the response of the last request
    uuids,          \* Spec: number of session ids uuid4 has generated so far
    log,            \* SpecUpload, SpecIndex: the calls made so far, in order
    ck,             \* SpecChunk: the locals of a running chunkText call
    procs           \* SpecBuildRace, SpecUploadRace: the locals of each process

vars == <<cIn, cOut, sIn, sOut, lIn, lOut, fs, resp, uuids, log, ck, procs>>

----------------------------------------------------------------------------
(* Bounds of the model *)

MaxDist == 3        \* distances range over 0..MaxDist
MaxScores == 3      \* longest list of distances given to the confidence gate
MaxCoord == 1       \* vector coordinates range over 0..MaxCoord
MaxRows == 2        \* most rows of an index in SpecSearch
MaxTopK == 3        \* largest topK in SpecSearch
MaxCtx == 2         \* most context chunks given to llm.generateAnswer
MaxFiles == 3       \* uploads are accepted while fewer files are stored
MaxUuids == 1       \* most session ids uuid4 generates
MaxUploads == 3     \* most uploads saved in SpecUpload
MaxCalls == 4       \* most calls made in SpecIndex
MaxTextLen == 4     \* longest text given to chunkText in SpecChunk, in tokens
MaxChunkSize == 3   \* largest chunkSize and overlap in SpecChunk
MaxProcs == 2       \* processes running at once in SpecBuildRace, SpecUploadRace

(* Program constants *)

\* The distance faiss reports for a missing neighbour (float32 max,
\* 3.4028235e38); here any value above every real distance of the model.
FltMax == 99

\* Number of REFUSAL_TEMPLATES.
NumTemplates == 5

\* chunkText's defaults.
DefaultChunkSize == 300

DefaultOverlap == 50

----------------------------------------------------------------------------
(* Generic helpers *)

Range(s) == {s[i] : i \in DOMAIN s}

SeqsUpTo(S, n) == UNION {[1..k -> S] : k \in 0..n}

Min(a, b) == IF a <= b THEN a ELSE b

Idle == "idle"

ChunkIdle == ck = Idle

RaceIdle == procs = Idle

\* The result slot of a pure-function specification before the call.
Pending == [done |-> FALSE]

\* str(n) and int(s) for the small numbers the model meets.
Digits == <<"1", "2", "3", "4", "5", "6", "7", "8", "9">>

Str(n) == IF n = 0 THEN "0" ELSE Digits[n]

ParseInt(tok) == CHOOSE n \in 0..Len(Digits) : Str(n) = tok

Perms(S) == {q \in [1..Cardinality(S) -> S] : \A x \in S : \E i \in DOMAIN q : q[i] = x}

----------------------------------------------------------------------------
(* Exact rational arithmetic for Python's float expressions: a value is a  *)
(* pair <<numerator, denominator>> with a positive denominator.            *)

FAdd(a, b) == <<a[1] * b[2] + b[1] * a[2], a[2] * b[2]>>

FDivInt(a, k) == <<a[1], a[2] * k>>

FGeq(a, b) == a[1] * b[2] >= b[1] * a[2]

FGt(a, b) == a[1] * b[2] > b[1] * a[2]

FEq(a, b) == a[1] * b[2] = b[1] * a[2]

FZero == <<0, 1>>

FOne == <<1, 1>>

RECURSIVE FSum(_)
FSum(s) == IF s = <<>> THEN FZero ELSE FAdd(Head(s), FSum(Tail(s)))

----------------------------------------------------------------------------
(* decision.py *)

\* Mutant of the gate's comparison: a strict comparison drops the boundary.
calculateConfidenceStrict(similarityScores, threshold) ==
    IF similarityScores = <<>>
    THEN [isConfident |-> FALSE, score |-> FZero]
    ELSE LET similarities == [i \in DOMAIN similarityScores |->
                                 <<1, 1 + similarityScores[i]>>]
             avgSimilarity == FDivInt(FSum(similarities), Len(similarities))
         IN [isConfident |-> FGt(avgSimilarity, threshold),
             score |-> avgSimilarity]

\* calculateConfidence(similarityScores, threshold): the inputs are L2
\* distances; each becomes 1 / (1 + d), and the mean is compared with >=.
calculateConfidence(similarityScores, threshold) ==
    IF similarityScores = <<>>
    THEN [isConfident |-> FALSE, score |-> FZero]
    ELSE LET similarities == [i \in DOMAIN similarityScores |->
                                 <<1, 1 + similarityScores[i]>>]
             avgSimilarity == FDivInt(FSum(similarities), Len(similarities))
         IN [isConfident |-> FGeq(avgSimilarity, threshold),
             score |-> avgSimilarity]

\* generateRefusalMessage(): one fixed message.
generateRefusalMessage == [kind |-> "refusal"]

----------------------------------------------------------------------------
(* SpecConf: calculateConfidence applied to every bounded input *)

\* Thresholds: the defaults 0.25 (main.runRAGSystem), 0.4 (generate),
\* 0.5 (decision), and the extremes 0 and 1.
Thresholds == {<<0, 1>>, <<1, 4>>, <<2, 5>>, <<1, 2>>, <<1, 1>>}

ConfInputs == [ds : SeqsUpTo(0..MaxDist, MaxScores), th : Thresholds]

ConfIdle == cIn = Idle /\ cOut = Idle

ConfApply ==
    /\ ~cOut.done
    /\ cOut' = [done |-> TRUE, r |-> calculateConfidence(cIn.ds, cIn.th)]
    /\ UNCHANGED <<cIn, sIn, sOut, lIn, lOut, fs, resp, uuids, log, ck, procs>>

----------------------------------------------------------------------------
(* retrieve.py: searchFaiss over a flat L2 index *)

\* Squared Euclidean distance of two 2-dimensional vectors (IndexFlatL2).
L2sq(u, v) == (u[1] - v[1]) * (u[1] - v[1]) + (u[2] - v[2]) * (u[2] - v[2])

\* Python's seq[i] for a list: 0-based, a negative i counts from the end.
PyIndex(seq, i) == IF i >= 0 THEN seq[i + 1] ELSE seq[Len(seq) + i + 1]

\* Name of the vector file of chunk i: f"chunk_{i}.npy".
ChunkFile(i) == <<"chunk", "_", Str(i), ".npy">>

\* index.search(queryVector, topK) of faiss.IndexFlatL2 holding `rows`: the
\* topK nearest rows, nearest first (ties by row number), as (distance, row
\* number, 0-based); when fewer than topK rows exist the tail is filled with
\* row number -1 and the largest float32 as the distance.
IndexSearch(rows, queryVector, topK) ==
    LET N == Len(rows)
        d(i) == L2sq(rows[i], queryVector)
        Before(j, i) == d(j) < d(i) \/ (d(j) = d(i) /\ j < i)
        rank(i) == Cardinality({j \in 1..N : Before(j, i)}) + 1
        at(r) == CHOOSE i \in 1..N : rank(i) = r
    IN [r \in 1..topK |->
          IF r <= N THEN [dist |-> d(at(r)), idx |-> at(r) - 1]
                    ELSE [dist |-> FltMax, idx |-> -1]]

\* searchFaiss(index, queryVector, metadata, topK): one triple
\* (filename, chunkId, distance) per (distance, row number) the index
\* returns, the metadata read with Python list indexing.
searchFaiss(index, queryVector, metadata, topK) ==
    LET found == IndexSearch(index, queryVector, topK)
    IN [r \in DOMAIN found |->
          <<PyIndex(metadata, found[r].idx)[1],
            PyIndex(metadata, found[r].idx)[2], found[r].dist>>]

----------------------------------------------------------------------------
(* SpecSearch: searchFaiss applied to every bounded index and query *)

Coords == 0..MaxCoord

Vectors == Coords \X Coords

\* Metadata as buildFaissIndex writes it for one document: row i is chunk i.
MetaFor(rows) == [i \in DOMAIN rows |-> <<"doc.pdf", ChunkFile(i - 1)>>]

SearchInputs ==
    [rows : UNION {[1..n -> Vectors] : n \in 1..MaxRows},
     q : Vectors, topK : 1..MaxTopK]

SearchIdle == sIn = Idle /\ sOut = Idle

SearchApply ==
    /\ ~sOut.done
    /\ sOut' = [done |-> TRUE,
                r |-> searchFaiss(sIn.rows, sIn.q, MetaFor(sIn.rows), sIn.topK)]
    /\ UNCHANGED <<sIn, cIn, cOut, lIn, lOut, fs, resp, uuids, log, ck, procs>>

----------------------------------------------------------------------------
(* llm.py: generateAnswer against the generation backend *)

\* str.strip() on a text held as a sequence of tokens, " " being whitespace.
RECURSIVE LStrip(_)
LStrip(t) == IF t # <<>> /\ Head(t) = " " THEN LStrip(Tail(t)) ELSE t

RECURSIVE RStrip(_)
RStrip(t) ==
    IF t # <<>> /\ t[Len(t)] = " " THEN RStrip(SubSeq(t, 1, Len(t) - 1)) ELSE t

Strip(t) == RStrip(LStrip(t))

\* get_dynamic_refusal(question): random.choice over REFUSAL_TEMPLATES,
\* `tpl` being the template drawn.
get_dynamic_refusal(question, tpl) ==
    [kind |-> "refusal", template |-> tpl, question |-> question]

\* generateAnswerFallback(contextChunks, question): the context dump.
generateAnswerFallback(contextChunks, question, tpl) ==
    IF contextChunks = <<>>
    THEN get_dynamic_refusal(question, tpl)
    ELSE [kind |-> "fallback",
          chunks |-> [i \in DOMAIN contextChunks |->
                        <<contextChunks[i].id, Strip(contextChunks[i].text)>>],
          question |-> question]

\* What requests.post and the parsing of its body can do.
\*   raise     requests.post raises (timeout after 10 s, connection error)
\*   status    an HTTP response with a code and a body; the body is
\*     notjson     response.json() raises ValueError
\*     nokey       a JSON object without "candidates" (KeyError)
\*     noitem      "candidates" is an empty list (IndexError)
\*     wrongtype   "candidates" is null (TypeError)
\*     text        a well-formed body carrying `text`
BodyShapes == {"notjson", "nokey", "noitem", "wrongtype", "text"}

\* generateAnswer(contextChunks, question) of llm.py (the other
\* generateAnswer, of generate.py, is the one main.py imports), `outcome` being what
\* the backend does and `tpl` the refusal template random.choice draws.
llmGenerateAnswer(contextChunks, question, outcome, tpl) ==
    IF contextChunks = <<>> THEN get_dynamic_refusal(question, tpl)   \* 74-75
    ELSE IF outcome.kind = "raise"                                    \* 144-146
    THEN generateAnswerFallback(contextChunks, question, tpl)
    ELSE IF outcome.code # 200                                        \* 126-128
    THEN generateAnswerFallback(contextChunks, question, tpl)
    ELSE IF outcome.body = "notjson"                                  \* 130, 144
    THEN generateAnswerFallback(contextChunks, question, tpl)
    ELSE IF outcome.body \in {"nokey", "noitem"}                      \* 134-136
    THEN generateAnswerFallback(contextChunks, question, tpl)
    ELSE IF outcome.body = "wrongtype"                                \* 133, 144
    THEN generateAnswerFallback(contextChunks, question, tpl)
    ELSE IF Strip(outcome.text) = <<>>                                \* 139-140
    THEN get_dynamic_refusal(question, tpl)
    ELSE [kind |-> "text", text |-> Strip(outcome.text)]              \* 142

----------------------------------------------------------------------------
(* SpecLLM: generateAnswer applied to bounded contexts and outcomes *)

Texts == {<<>>, <<" ">>, <<"w">>, <<" ", "w", " ">>}

ContextChunks == [id : {"Source 1", "Source 2"}, text : {<<"w">>, <<" ", "w", " ">>}]

Outcomes ==
    {[kind |-> "raise", code |-> 0, body |-> "notjson", text |-> <<>>]}
    \cup [kind : {"status"}, code : {200, 204, 429, 500},
          body : BodyShapes \ {"text"}, text : {<<>>}]
    \cup [kind : {"status"}, code : {200, 204, 429, 500},
          body : {"text"}, text : Texts]

Templates == 1..NumTemplates

LlmInputs ==
    [ctx : SeqsUpTo(ContextChunks, MaxCtx), question : {"q"}, outcome : Outcomes]

LlmIdle == lIn = Idle /\ lOut = Idle

LlmApply ==
    /\ ~lOut.done
    /\ \E tpl \in Templates :
         lOut' = [done |-> TRUE,
                  r |-> llmGenerateAnswer(lIn.ctx, lIn.question, lIn.outcome, tpl)]
    /\ UNCHANGED <<lIn, cIn, cOut, sIn, sOut, fs, resp, uuids, log, ck, procs>>


----------------------------------------------------------------------------
(* The filesystem.  A name is a sequence of tokens ("a_1.pdf" is           *)
(* <<"a", "_", "1", ".pdf">>, "" is <<>>); a path is a sequence of names,  *)
(* relative to the project root, which is also the working directory.      *)
(* fs maps every existing path to its node.                                *)

N(s) == <<s>>

DotDot == N("..")

Root == <<>>

DirNode == [kind |-> "dir", data |-> [t |-> "none"]]

FileNode(data) == [kind |-> "file", data |-> data]

Exists(f, p) == p \in DOMAIN f

IsDir(f, p) == p \in DOMAIN f /\ f[p].kind = "dir"

Parent(p) == IF p = <<>> THEN <<>> ELSE SubSeq(p, 1, Len(p) - 1)

IsPrefix(p, q) == Len(p) <= Len(q) /\ SubSeq(q, 1, Len(p)) = p

\* pathlib's "/" : the names of `more` appended, empty names dropped.
Join(base, more) == base \o SelectSeq(more, LAMBDA c : c # <<>>)

\* A path that never exists: what a lookup through a missing directory gives.
NoEnt == <<N("<enoent>")>>

\* The path the operating system resolves `raw` to: ".." steps to the
\* parent of an existing directory, and fails through anything else.
RECURSIVE Walk(_, _, _)
Walk(f, cur, rest) ==
    IF rest = <<>> THEN cur
    ELSE IF Head(rest) = DotDot
    THEN IF IsDir(f, cur) THEN Walk(f, Parent(cur), Tail(rest)) ELSE NoEnt
    ELSE Walk(f, Append(cur, Head(rest)), Tail(rest))

Resolve(f, raw) == Walk(f, Root, raw)

\* Path.mkdir(parents=True, exist_ok=True): every name of `raw` is created
\* in turn where it is missing; ok is FALSE when a file is in the way.
RECURSIVE MkWalk(_, _, _)
MkWalk(f, cur, rest) ==
    IF rest = <<>> THEN [ok |-> TRUE, fs |-> f, path |-> cur]
    ELSE IF Head(rest) = DotDot THEN MkWalk(f, Parent(cur), Tail(rest))
    ELSE LET nxt == Append(cur, Head(rest))
         IN IF IsDir(f, nxt) THEN MkWalk(f, nxt, Tail(rest))
            ELSE IF Exists(f, nxt) THEN [ok |-> FALSE, fs |-> f, path |-> nxt]
            ELSE MkWalk(f @@ (nxt :> DirNode), nxt, Tail(rest))

MkdirP(f, raw) == MkWalk(f, Root, raw)

\* Path.mkdir(exist_ok=True): the parent must exist already.
Mkdir(f, raw) ==
    LET p == Resolve(f, raw)
    IN IF IsDir(f, p) THEN [ok |-> TRUE, fs |-> f]
       ELSE IF p = NoEnt \/ Exists(f, p) \/ ~IsDir(f, Parent(p))
       THEN [ok |-> FALSE, fs |-> f]
       ELSE [ok |-> TRUE, fs |-> f @@ (p :> DirNode)]

\* open(path, "wb") and a write of `data`: creates or truncates the file.
WriteFile(f, p, data) ==
    [q \in DOMAIN f \cup {p} |-> IF q = p THEN FileNode(data) ELSE f[q]]

\* shutil.rmtree(p): p and everything below it.
Rmtree(f, p) == [q \in {r \in DOMAIN f : ~IsPrefix(p, r)} |-> f[q]]

\* os.listdir(p) / Path.iterdir(): the names directly inside p.
ListDir(f, p) == {q[Len(q)] : q \in {r \in DOMAIN f : r # p /\ Parent(r) = p}}

FilesOf(f) == {p \in DOMAIN f : f[p].kind = "file"}

----------------------------------------------------------------------------
(* Names: extensions, stems, case *)

ExtTokens == {".pdf", ".PDF", ".txt", ".npy", ".bin", ".json"}

\* str.lower() on one token.
Lower(tok) == IF tok = ".PDF" THEN ".pdf" ELSE IF tok = "A" THEN "a" ELSE tok

\* name.endswith(ext), ext being one extension token.
EndsWith(name, ext) == name # <<>> /\ name[Len(name)] = ext

\* name.lower().endswith(ext)
LowerEndsWith(name, ext) == name # <<>> /\ Lower(name[Len(name)]) = ext

\* PurePath.suffix: the last extension, unless the name is nothing else.
Suffix(name) ==
    IF Len(name) >= 2 /\ name[Len(name)] \in ExtTokens
    THEN <<name[Len(name)]>> ELSE <<>>

\* PurePath.stem: the name without its suffix.
Stem(name) == SubSeq(name, 1, Len(name) - Len(Suffix(name)))

----------------------------------------------------------------------------
(* upload.py *)

SESSIONS_DIR == <<N("data"), N("sessions")>>

\* Mutant: validation without the size ceiling.
validatePdfFileNoSizeCheck(file) ==
    IF SelectSeq(file.filename, LAMBDA c : c # <<>>) = <<>>
    THEN "No filename provided"
    ELSE IF ~LowerEndsWith(file.filename[Len(file.filename)], ".pdf")
    THEN "Only PDF files are supported"
    ELSE "ok"

\* validatePdfFile(file): the detail of the 400 it raises, or "ok".
\* file.filename is a sequence of names (the string split at "/").
validatePdfFile(file) ==
    IF SelectSeq(file.filename, LAMBDA c : c # <<>>) = <<>>
    THEN "No filename provided"
    ELSE IF ~LowerEndsWith(file.filename[Len(file.filename)], ".pdf")
    THEN "Only PDF files are supported"
    ELSE IF file.oversize THEN "File size exceeds limit"
    ELSE "ok"

\* The while loop of saveUploadedPdf: the first free f"{base}_{counter}{ext}".
RECURSIVE FreeName(_, _, _, _, _)
FreeName(f, dir, base_name, extension, counter) ==
    LET cand == Join(dir, <<base_name \o <<"_", Str(counter)>> \o extension>>)
    IN IF Exists(f, Resolve(f, cand))
       THEN FreeName(f, dir, base_name, extension, counter + 1)
       ELSE cand

\* Mutant of the de-duplication: the name is used as given.
DedupedPathOverwrite(f, file_path) == file_path

\* Lines 43-50 of saveUploadedPdf: the path the upload is written to.
DedupedPath(f, file_path) ==
    IF Exists(f, Resolve(f, file_path))
    THEN FreeName(f, Parent(file_path), Stem(file_path[Len(file_path)]),
                  Suffix(file_path[Len(file_path)]), 1)
    ELSE file_path

\* saveUploadedPdf(file, session_id), `fresh` being what uuid.uuid4() gives.
\* status 200 stands for a normal return of (session_id, file_path).  The
\* stored file carries, besides its text, the session id of the request
\* that wrote it (`by`, which nothing in the program reads).
saveUploadedPdf(f, file, session_id, fresh) ==
    LET verdict == validatePdfFile(file)
        sid == IF session_id = <<>> THEN fresh ELSE session_id
        session_dir == Join(SESSIONS_DIR, <<sid>>)
        made1 == MkdirP(f, session_dir)
        target == Join(Join(session_dir, <<N("uploads")>>), file.filename)
        made2 == MkdirP(made1.fs, Parent(target))
        file_path == DedupedPath(made2.fs, target)
        dest == Resolve(made2.fs, file_path)
        failed(g, d) == [status |-> 500, detail |-> d, fs |-> g,
                         session_id |-> sid, file_path |-> <<>>]
    IN IF verdict # "ok"
       THEN [status |-> 400, detail |-> verdict, fs |-> f,
             session_id |-> session_id, file_path |-> <<>>]
       ELSE IF ~made1.ok THEN failed(made1.fs, "FileExistsError")
       ELSE IF ~made2.ok THEN failed(made2.fs, "FileExistsError")
       ELSE IF IsDir(made2.fs, dest) \/ dest = NoEnt
       THEN failed(made2.fs, "Failed to save file")
       ELSE [status |-> 200, detail |-> "ok",
             fs |-> WriteFile(made2.fs, dest,
                              [t |-> "pdf", text |-> file.content, by |-> sid]),
             session_id |-> sid, file_path |-> file_path]

\* getSessionFiles(session_id): the names in uploads/ whose suffix is .pdf
\* in any case; nothing when the directory does not exist.
getSessionFiles(f, session_id) ==
    LET session_dir == Resolve(f, Join(SESSIONS_DIR, <<session_id, N("uploads")>>))
    IN IF ~Exists(f, session_dir) THEN {}
       ELSE {n \in ListDir(f, session_dir) : Suffix(n) # <<>> /\ Lower(Suffix(n)[1]) = ".pdf"}

\* deleteSession(session_id): the tree is removed when the directory exists.
deleteSession(f, session_id) ==
    LET session_dir == Resolve(f, Join(SESSIONS_DIR, <<session_id>>))
    IN IF Exists(f, session_dir)
       THEN [ret |-> TRUE, fs |-> Rmtree(f, session_dir)]
       ELSE [ret |-> FALSE, fs |-> f]


----------------------------------------------------------------------------
(* ingest.py *)

\* extractTextFromPdf(path): the text of the stored document.
extractTextFromPdf(f, p) == f[p].data.text

\* ingestDocuments(folder_path): {filename: text} for the names that end
\* with ".pdf" (case-sensitive); os.listdir raises on a missing folder.
ingestDocuments(f, folder_path) ==
    LET folder == Resolve(f, folder_path)
        names == {n \in ListDir(f, folder) : EndsWith(n, ".pdf")}
    IN IF ~IsDir(f, folder)
       THEN [ok |-> FALSE, exc |-> "FileNotFoundError", documents |-> <<>>]
       ELSE [ok |-> TRUE, exc |-> "none",
             documents |-> [n \in names |-> extractTextFromPdf(f, Append(folder, n))]]

----------------------------------------------------------------------------
(* chunk.py *)

\* Lines 10-11 of chunkText: whitespace runs collapsed, the ends trimmed,
\* the text split at single spaces.  A text is a sequence of tokens, " "
\* being whitespace; a text without words splits into one empty word.
SplitWords(text) ==
    LET words == SelectSeq(text, LAMBDA w : w # " ")
    IN IF words = <<>> THEN <<"">> ELSE words

\* The while loop of chunkText, for overlap < chunkSize.
RECURSIVE ChunkLoop(_, _, _, _)
ChunkLoop(words, chunkSize, overlap, start) ==
    IF start < Len(words)
    THEN <<SubSeq(words, start + 1, Min(start + chunkSize, Len(words)))>>
         \o ChunkLoop(words, chunkSize, overlap, start + chunkSize - overlap)
    ELSE <<>>

\* chunkText(text, chunkSize, overlap): a chunk is the sequence of its words.
chunkText(text, chunkSize, overlap) ==
    ChunkLoop(SplitWords(text), chunkSize, overlap, 0)

\* chunkText(text) with the default chunkSize and overlap.
chunkTextDefault(text) == chunkText(text, DefaultChunkSize, DefaultOverlap)

----------------------------------------------------------------------------
(* embed.py *)

\* createEmbedding(text) = model.encode(text): a fixed function from texts
\* to vectors; here the vector is read off the length of the text.
createEmbedding(text) == <<Len(text) % 2, IF Len(text) > 2 THEN 1 ELSE 0>>

\* embedChunks(chunks, filename) as defined: the vectors are written to
\* PROJECT_ROOT/embeddings/<filename>/chunk_<i>.npy.
RECURSIVE SaveVectors(_, _, _, _)
SaveVectors(f, folderPath, chunks, i) ==
    IF i >= Len(chunks) THEN f
    ELSE SaveVectors(
           WriteFile(f, Append(folderPath, ChunkFile(i)),
                     [t |-> "npy", ndim |-> 1, vec |-> createEmbedding(chunks[i + 1])]),
           folderPath, chunks, i + 1)

embedChunks(f, chunks, filename) ==
    LET made == MkdirP(f, <<N("embeddings"), filename>>)
    IN IF ~made.ok THEN [ok |-> FALSE, exc |-> "FileExistsError", fs |-> made.fs]
       ELSE [ok |-> TRUE, exc |-> "none",
             fs |-> SaveVectors(made.fs, made.path, chunks, 0)]

\* A call embedChunks(*args): Python binds the positional arguments to the
\* two parameters of the definition and raises TypeError on any other count.
embedChunksCall(f, args) ==
    IF Len(args) # 2 THEN [ok |-> FALSE, exc |-> "TypeError", fs |-> f]
    ELSE embedChunks(f, args[1], args[2])

----------------------------------------------------------------------------
(* retrieve.py: buildFaissIndex *)

\* The orders in which the nested os.listdir loops of lines 28-31 can meet
\* the (fileName, chunkFile) pairs: listdir promises no order, and the
\* chunk files of one directory are met together.
Listings(f, folder) ==
    LET pairs == {<<d, c>> : d \in {x \in ListDir(f, folder) : IsDir(f, Append(folder, x))},
                             c \in UNION {ListDir(f, Append(folder, x)) : x \in ListDir(f, folder)}}
        real == {pr \in pairs : Exists(f, folder \o <<pr[1], pr[2]>>)}
    IN {q \in Perms(real) :
          \A i, j, k \in DOMAIN q : (i < j /\ j < k /\ q[i][1] = q[k][1]) => q[j][1] = q[i][1]}

\* Variants of buildFaissIndex that differ from the code in one decision:
\* "rebuild" never loads, "validate" loads only an index that has one row
\* per accepted vector, "empty" persists an index without rows, "resorted"
\* lists the metadata in another order than the rows.
BuildVariant(f, embeddingFolder, index_dir, variant) ==
    LET folder == Resolve(f, embeddingFolder)
        index_file == Resolve(f, Join(index_dir, <<<<"faiss_index", ".bin">>>>))
        metadata_file == Resolve(f, Join(index_dir, <<<<"metadata", ".json">>>>))
        raises(e) == [ok |-> FALSE, exc |-> e, fs |-> f, index |-> <<>>,
                      metadata |-> <<>>, built |-> FALSE]
        accepted(order) ==
            SelectSeq(order, LAMBDA pr :
                EndsWith(pr[2], ".npy") /\ f[folder \o <<pr[1], pr[2]>>].data.ndim = 1)
        build(order) ==
            LET metadata == accepted(order)
                vectors == [i \in DOMAIN metadata |->
                              f[folder \o <<metadata[i][1], metadata[i][2]>>].data.vec]
                listed == IF variant = "resorted"
                          THEN [i \in DOMAIN metadata |-> metadata[Len(metadata) + 1 - i]]
                          ELSE metadata
            IN IF metadata = <<>> /\ variant # "empty" THEN raises("ValueError")
               ELSE IF \E i, j \in DOMAIN vectors : Len(vectors[i]) # Len(vectors[j])
               THEN raises("ValueError(np.stack)")
               ELSE IF ~IsDir(f, Parent(index_file)) THEN raises("RuntimeError")
               ELSE [ok |-> TRUE, exc |-> "none", index |-> vectors,
                     metadata |-> listed, built |-> TRUE,
                     fs |-> WriteFile(
                              WriteFile(f, index_file, [t |-> "index", rows |-> vectors]),
                              metadata_file, [t |-> "json", entries |-> listed])]
        loads ==
            /\ variant # "rebuild"
            /\ Exists(f, index_file) /\ Exists(f, metadata_file)
            /\ variant = "validate" =>
                  \/ ~IsDir(f, folder)
                  \/ \A order \in Listings(f, folder) :
                        Len(accepted(order)) = Len(f[index_file].data.rows)
    IN IF loads
       THEN {[ok |-> TRUE, exc |-> "none", fs |-> f, built |-> FALSE,
              index |-> f[index_file].data.rows,
              metadata |-> f[metadata_file].data.entries]}
       ELSE IF ~IsDir(f, folder) THEN {raises("FileNotFoundError")}
       ELSE {build(order) : order \in Listings(f, folder)}

buildFaissIndexRebuild(f, embeddingFolder, index_dir) ==
    BuildVariant(f, embeddingFolder, index_dir, "rebuild")

buildFaissIndexValidate(f, embeddingFolder, index_dir) ==
    BuildVariant(f, embeddingFolder, index_dir, "validate")

buildFaissIndexEmpty(f, embeddingFolder, index_dir) ==
    BuildVariant(f, embeddingFolder, index_dir, "empty")

buildFaissIndexResorted(f, embeddingFolder, index_dir) ==
    BuildVariant(f, embeddingFolder, index_dir, "resorted")

\* buildFaissIndex(embeddingFolder, index_dir): the set of its possible
\* outcomes, one per listing order.  An outcome either returns
\* (index, metadata) or raises; fs is the filesystem it leaves.
buildFaissIndex(f, embeddingFolder, index_dir) ==
    LET folder == Resolve(f, embeddingFolder)
        index_file == Resolve(f, Join(index_dir, <<<<"faiss_index", ".bin">>>>))
        metadata_file == Resolve(f, Join(index_dir, <<<<"metadata", ".json">>>>))
        raises(e) == [ok |-> FALSE, exc |-> e, fs |-> f, index |-> <<>>,
                      metadata |-> <<>>, built |-> FALSE]
        accepted(order) ==
            SelectSeq(order, LAMBDA pr :
                EndsWith(pr[2], ".npy") /\ f[folder \o <<pr[1], pr[2]>>].data.ndim = 1)
        build(order) ==
            LET metadata == accepted(order)
                vectors == [i \in DOMAIN metadata |->
                              f[folder \o <<metadata[i][1], metadata[i][2]>>].data.vec]
            IN IF metadata = <<>> THEN raises("ValueError")
               ELSE IF \E i, j \in DOMAIN vectors : Len(vectors[i]) # Len(vectors[j])
               THEN raises("ValueError(np.stack)")
               ELSE IF ~IsDir(f, Parent(index_file)) THEN raises("RuntimeError")
               ELSE [ok |-> TRUE, exc |-> "none", index |-> vectors,
                     metadata |-> metadata, built |-> TRUE,
                     fs |-> WriteFile(
                              WriteFile(f, index_file, [t |-> "index", rows |-> vectors]),
                              metadata_file, [t |-> "json", entries |-> metadata])]
    IN IF Exists(f, index_file) /\ Exists(f, metadata_file)
       THEN {[ok |-> TRUE, exc |-> "none", fs |-> f, built |-> FALSE,
              index |-> f[index_file].data.rows,
              metadata |-> f[metadata_file].data.entries]}
       ELSE IF ~IsDir(f, folder) THEN {raises("FileNotFoundError")}
       ELSE {build(order) : order \in Listings(f, folder)}


----------------------------------------------------------------------------
(* generate.py: the generateAnswer that main.py imports *)

\* Lines 14-27: the answer built from the retrieved chunks, "Source i+1"
\* heading chunk i.
FormatAnswer(retrievedChunks) ==
    [kind |-> "answer",
     sources |-> [i \in DOMAIN retrievedChunks |-> <<i, retrievedChunks[i]>>]]

\* Mutant of the gate: the answer is generated whatever the gate says.
generateAnswerUngated(question, retrievedChunks, similarityScores, threshold) ==
    [value |-> FormatAnswer(retrievedChunks),
     gate |-> calculateConfidence(similarityScores, threshold),
     steps |-> <<"generate", "gate">>]

\* generateAnswer(question, retrievedChunks, similarityScores, threshold):
\* the value returned, what the gate computed, and the steps run in order.
generateAnswer(question, retrievedChunks, similarityScores, threshold) ==
    LET gate == calculateConfidence(similarityScores, threshold)
    IN IF ~gate.isConfident
       THEN [value |-> generateRefusalMessage, gate |-> gate, steps |-> <<"gate">>]
       ELSE [value |-> FormatAnswer(retrievedChunks), gate |-> gate,
             steps |-> <<"gate", "generate">>]

----------------------------------------------------------------------------
(* main.py *)

NoGate == [isConfident |-> FALSE, score |-> <<0, 0>>]

NoDocumentsMessage == [kind |-> "nodocs"]

\* An outcome of an orchestrator call: it returns `value` or raises `exc`;
\* fs is the filesystem it leaves, steps the pipeline steps it ran.
Returned(f, value, gate, steps) ==
    [ok |-> TRUE, exc |-> "none", fs |-> f, value |-> value, gate |-> gate,
     steps |-> steps]

Raised(f, exc, steps) ==
    [ok |-> FALSE, exc |-> exc, fs |-> f, value |-> [kind |-> "none"],
     gate |-> NoGate, steps |-> steps]

\* Lines 38-40 of runRAGForSingleFile: every document chunked and handed to
\* embedChunks with three arguments; the first failure ends the loop.
RECURSIVE EmbedAll(_, _, _, _)
EmbedAll(f, documents, todo, embeddings_dir) ==
    IF todo = {} THEN [ok |-> TRUE, exc |-> "none", fs |-> f]
    ELSE LET file_name == CHOOSE n \in todo : TRUE
             chunk_list == chunkTextDefault(documents[file_name])
             done == embedChunksCall(f, <<chunk_list, file_name, embeddings_dir>>)
         IN IF ~done.ok THEN done
            ELSE EmbedAll(done.fs, documents, todo \ {file_name}, embeddings_dir)

\* runRAGForSingleFile(session_id): the set of its possible outcomes.
runRAGForSingleFile(f, session_id) ==
    LET session_dir == Join(SESSIONS_DIR, <<session_id>>)
        uploads_dir == Join(session_dir, <<N("uploads")>>)
        embeddings_dir == Join(session_dir, <<N("embeddings")>>)
        chunks_dir == Join(session_dir, <<N("chunks")>>)
        index_dir == Join(session_dir, <<N("index")>>)
        m1 == Mkdir(f, embeddings_dir)
        m2 == Mkdir(m1.fs, chunks_dir)
        m3 == Mkdir(m2.fs, index_dir)
        ingested == ingestDocuments(m3.fs, uploads_dir)
        embedded == EmbedAll(m3.fs, ingested.documents, DOMAIN ingested.documents,
                             embeddings_dir)
    IN IF ~m1.ok THEN {Raised(m1.fs, "FileNotFoundError", <<>>)}
       ELSE IF ~m2.ok THEN {Raised(m2.fs, "FileNotFoundError", <<>>)}
       ELSE IF ~m3.ok THEN {Raised(m3.fs, "FileNotFoundError", <<>>)}
       ELSE IF ~ingested.ok THEN {Raised(m3.fs, ingested.exc, <<"ingest">>)}
       ELSE IF DOMAIN ingested.documents = {}
       THEN {Raised(m3.fs, "No document found", <<"ingest">>)}
       ELSE IF ~embedded.ok
       THEN {Raised(embedded.fs, embedded.exc, <<"ingest", "chunk", "embed">>)}
       ELSE {IF b.ok
             THEN Returned(b.fs, [kind |-> "none"], NoGate,
                           <<"ingest", "chunk", "embed", "index">>)
             ELSE Raised(b.fs, b.exc, <<"ingest", "chunk", "embed", "index">>)
             : b \in buildFaissIndex(embedded.fs, embeddings_dir, index_dir)}

\* Lines 78-87 of runRAGSystem: the text of every search result, found by
\* chunking its document again.  ok is FALSE when the document is not
\* among `documents` (KeyError) or has no such chunk (IndexError).
RetrievedChunks(documents, searchResults) ==
    LET chunkNum(r) == ParseInt(searchResults[r][2][3])
        known(r) == searchResults[r][1] \in DOMAIN documents
        chunkList(r) == chunkTextDefault(documents[searchResults[r][1]])
    IN IF \E r \in DOMAIN searchResults : ~known(r)
       THEN [ok |-> FALSE, exc |-> "KeyError", chunks |-> <<>>]
       ELSE IF \E r \in DOMAIN searchResults : chunkNum(r) >= Len(chunkList(r))
       THEN [ok |-> FALSE, exc |-> "IndexError", chunks |-> <<>>]
       ELSE [ok |-> TRUE, exc |-> "none",
             chunks |-> [r \in DOMAIN searchResults |-> chunkList(r)[chunkNum(r) + 1]]]

\* runRAGSystem(question, session_id, threshold, topK): the set of its
\* possible outcomes.  session_id <<>> stands for None and for "".
runRAGSystem(f, question, session_id, threshold, topK) ==
    LET session_dir == Join(SESSIONS_DIR, <<session_id>>)
        docs_folder == IF session_id # <<>> THEN Join(session_dir, <<N("uploads")>>)
                       ELSE <<N("data"), N("documents")>>
        embeddings_root == IF session_id # <<>> THEN Join(session_dir, <<N("embeddings")>>)
                           ELSE <<N("embeddings")>>
        index_dir == IF session_id # <<>> THEN Join(session_dir, <<N("index")>>)
                     ELSE embeddings_root
        ingested == ingestDocuments(f, docs_folder)
        After(b) ==
            LET queryVector == createEmbedding(question)
                searchResults == searchFaiss(b.index, queryVector, b.metadata, topK)
                retrieved == RetrievedChunks(ingested.documents, searchResults)
                similarityScores == [r \in DOMAIN searchResults |-> searchResults[r][3]]
                answer == generateAnswer(question, retrieved.chunks,
                                              similarityScores, threshold)
            IN IF ~b.ok THEN Raised(b.fs, b.exc, <<"ingest", "index">>)
               ELSE IF ~retrieved.ok
               THEN Raised(b.fs, retrieved.exc, <<"ingest", "index", "embed", "search">>)
               ELSE Returned(b.fs, answer.value, answer.gate,
                             <<"ingest", "index", "embed", "search">> \o answer.steps)
    IN IF ~ingested.ok THEN {Raised(f, ingested.exc, <<"ingest">>)}
       ELSE IF DOMAIN ingested.documents = {}
       THEN {Returned(f, NoDocumentsMessage, NoGate, <<"ingest">>)}
       ELSE {After(b) : b \in buildFaissIndex(f, embeddings_root, index_dir)}

----------------------------------------------------------------------------
(* api.py *)

\* The response of a handler.  status is the HTTP status; the other fields
\* are the body (or, for an error, the detail) and what the request ran.
Response(op, status, detail, session_id, file_path, files, value, gate, steps) ==
    [op |-> op, status |-> status, detail |-> detail, session_id |-> session_id,
     file_path |-> file_path, files |-> files, value |-> value, gate |-> gate,
     steps |-> steps]

NoValue == [kind |-> "none"]

\* Lines 38-45: what chat's try block makes of an exception raised inside
\* it.  `except Exception` also catches the HTTPException of line 40.
ChatExcept(raisedStatus, detail) == 500

\* Lines 69-72: upload's handlers re-raise an HTTPException as it is and
\* turn any other exception into a 500.
UploadExcept(raisedStatus, detail) == IF raisedStatus # 0 THEN raisedStatus ELSE 500

\* chat(query): the set of possible results [fs, resp].
chat(f, question, session_id) ==
    IF Strip(question) = <<>>
    THEN {[fs |-> f,
           resp |-> Response("chat", ChatExcept(400, "Question cannot be empty"),
                             "Question cannot be empty", session_id, <<>>, {},
                             NoValue, NoGate, <<>>)]}
    ELSE {[fs |-> r.fs,
           resp |-> IF r.ok
                    THEN Response("chat", 200, "ok", session_id, <<>>, {},
                                  r.value, r.gate, r.steps)
                    ELSE Response("chat", ChatExcept(0, r.exc), r.exc, session_id,
                                  <<>>, {}, NoValue, NoGate, r.steps)]
          : r \in runRAGSystem(f, question, session_id, <<1, 4>>, 3)}

\* upload(file, session_id): the set of possible results [fs, resp].
upload(f, file, session_id, fresh) ==
    LET saved == saveUploadedPdf(f, file, session_id, fresh)
    IN IF saved.status # 200
       THEN {[fs |-> saved.fs,
              resp |-> Response("upload", UploadExcept(saved.status, saved.detail),
                                saved.detail, saved.session_id, <<>>, {},
                                NoValue, NoGate, <<>>)]}
       ELSE {[fs |-> r.fs,
              resp |-> IF r.ok
                       THEN Response("upload", 200, "ok", saved.session_id,
                                     saved.file_path,
                                     getSessionFiles(r.fs, saved.session_id),
                                     NoValue, NoGate, r.steps)
                       ELSE Response("upload", UploadExcept(0, r.exc), r.exc,
                                     saved.session_id, saved.file_path, {},
                                     NoValue, NoGate, r.steps)]
             : r \in runRAGForSingleFile(saved.fs, saved.session_id)}

\* list_session_files(session_id)
list_session_files(f, session_id) ==
    Response("list", 200, "ok", session_id, <<>>, getSessionFiles(f, session_id),
             NoValue, NoGate, <<>>)

\* delete_session_endpoint(session_id): [fs, resp].
delete_session_endpoint(f, session_id) ==
    LET d == deleteSession(f, session_id)
    IN [fs |-> d.fs,
        resp |-> IF d.ret
                 THEN Response("delete", 200, "Session deleted successfully",
                               session_id, <<>>, {}, NoValue, NoGate, <<>>)
                 ELSE Response("delete", 404, "Session not found",
                               session_id, <<>>, {}, NoValue, NoGate, <<>>)]


----------------------------------------------------------------------------
(* Spec: the session store behind the HTTP handlers *)

NoResponse ==
    Response("none", 0, "none", <<>>, <<>>, {}, NoValue, NoGate, <<>>)

\* After import: SESSIONS_DIR exists (upload.py line 8), nothing else.
StoreFS ==
    (Root :> DirNode) @@ (<<N("data")>> :> DirNode) @@ (SESSIONS_DIR :> DirNode)

\* uuid.uuid4(): the n-th generated id.
Uuid(n) == <<"u", Str(n)>>

\* The session ids a client sends: a plain id, "..", and the ids handed out.
ClientSids == {N("s1"), DotDot} \cup {Uuid(n) : n \in 1..uuids}

APdf == <<"a", ".pdf">>

\* The filenames a client sends: "a.pdf", "a_1.pdf", "A.PDF", "notes.txt",
\* "" and "../../s1/uploads/a.pdf".
FileNames ==
    {<<APdf>>, <<<<"a", "_", "1", ".pdf">>>>, <<<<"A", ".PDF">>>>,
     <<<<"notes", ".txt">>>>, <<>>,
     <<DotDot, DotDot, N("s1"), N("uploads"), APdf>>}

\* The documents a client uploads, each given by its text.
Contents == {<<"w">>, <<"w", "w">>}

Questions == {<<>>, <<" ">>, <<"q">>}

Init ==
    /\ fs = StoreFS /\ resp = NoResponse /\ uuids = 0 /\ log = <<>>
    /\ ConfIdle /\ SearchIdle /\ LlmIdle /\ ChunkIdle /\ RaceIdle

\* The files a client uploads: every valid name with every content, and
\* one file per way of failing validation.
ValidNames == {n \in FileNames : n # <<>> /\ LowerEndsWith(n[Len(n)], ".pdf")}

UploadFiles ==
    [filename : ValidNames, oversize : {FALSE}, content : Contents]
    \cup [filename : FileNames \ ValidNames, oversize : {FALSE}, content : {<<"w">>}]
    \cup {[filename |-> <<APdf>>, oversize |-> TRUE, content |-> <<"w">>]}

\* The server handles one request at a time: a handler runs when no
\* response is waiting to be sent.
Ready == resp = NoResponse

\* POST /api/upload
Upload(file, session_id) ==
    /\ Ready
    /\ Cardinality(FilesOf(fs)) < MaxFiles
    /\ session_id = <<>> => uuids < MaxUuids
    /\ \E r \in upload(fs, file, session_id, Uuid(uuids + 1)) :
         /\ fs' = r.fs
         /\ resp' = r.resp
    /\ uuids' = IF session_id = <<>> /\ validatePdfFile(file) = "ok"
                THEN uuids + 1 ELSE uuids
    /\ UNCHANGED <<cIn, cOut, sIn, sOut, lIn, lOut, log, ck, procs>>

\* POST /api/chat with a session id
Chat(question, session_id) ==
    /\ Ready
    /\ \E r \in chat(fs, question, session_id) :
         /\ fs' = r.fs
         /\ resp' = r.resp
    /\ UNCHANGED <<uuids, cIn, cOut, sIn, sOut, lIn, lOut, log, ck, procs>>

\* GET /api/session/{session_id}/files
ListFiles(session_id) ==
    /\ Ready
    /\ resp' = list_session_files(fs, session_id)
    /\ UNCHANGED <<fs, uuids, cIn, cOut, sIn, sOut, lIn, lOut, log, ck, procs>>

\* DELETE /api/session/{session_id}
Delete(session_id) ==
    /\ Ready
    /\ fs' = delete_session_endpoint(fs, session_id).fs
    /\ resp' = delete_session_endpoint(fs, session_id).resp
    /\ UNCHANGED <<uuids, cIn, cOut, sIn, sOut, lIn, lOut, log, ck, procs>>

\* The response is sent to the client.
Send ==
    /\ ~Ready
    /\ resp' = NoResponse
    /\ UNCHANGED <<fs, uuids, cIn, cOut, sIn, sOut, lIn, lOut, log, ck, procs>>

Next ==
    \/ \E file \in UploadFiles, sid \in ClientSids \cup {<<>>} : Upload(file, sid)
    \/ \E q \in Questions, sid \in ClientSids : Chat(q, sid)
    \/ \E sid \in ClientSids : ListFiles(sid)
    \/ \E sid \in ClientSids : Delete(sid)
    \/ Send

StoreIdle == fs = Idle /\ resp = Idle /\ uuids = 0 /\ log = <<>>

Spec == Init /\ [][Next]_vars

----------------------------------------------------------------------------
(* SpecUpload: saveUploadedPdf called again and again for one session *)

UploadSession == N("s1")

UploadNames ==
    {<<APdf>>, <<<<"a", "_", "1", ".pdf">>>>, <<<<"A", ".PDF">>>>,
     <<<<"notes", ".txt">>>>}

UploadInit ==
    /\ fs = StoreFS /\ resp = NoResponse /\ uuids = 0 /\ log = <<>>
    /\ ConfIdle /\ SearchIdle /\ LlmIdle /\ ChunkIdle /\ RaceIdle

\* saveUploadedPdf(file, "s1"); a saved upload is entered in the log with
\* the name sent, the path it was stored at and its content.
SaveUpload(file) ==
    /\ Len(log) < MaxUploads
    /\ LET r == saveUploadedPdf(fs, file, UploadSession, Uuid(1))
       IN /\ fs' = r.fs
          /\ log' = IF r.status = 200
                    THEN Append(log, [name |-> file.filename[Len(file.filename)],
                                      stored |-> Resolve(r.fs, r.file_path),
                                      content |-> file.content])
                    ELSE log
    /\ UNCHANGED <<resp, uuids, cIn, cOut, sIn, sOut, lIn, lOut, ck, procs>>

UploadNext ==
    \E name \in UploadNames, content \in Contents :
        SaveUpload([filename |-> name, oversize |-> FALSE, content |-> content])

SpecUpload == UploadInit /\ [][UploadNext]_vars


----------------------------------------------------------------------------
(* SpecRag: the orchestrator in its default (no session) mode, over        *)
(* data/documents and PROJECT_ROOT/embeddings                              *)

ShortDoc == <<"short", ".pdf">>

LongDoc == <<"long", ".pdf">>

ShortText == <<"w", " ", "w">>

\* A text of 260 words: more than one chunk of the default size.
LongText == [i \in 1..260 |-> "w"]

DOCUMENTS_DIR == <<N("data"), N("documents")>>

RagFS ==
    StoreFS @@ (DOCUMENTS_DIR :> DirNode)
    @@ (Append(DOCUMENTS_DIR, ShortDoc) :> FileNode([t |-> "pdf", text |-> ShortText, by |-> <<>>]))
    @@ (Append(DOCUMENTS_DIR, LongDoc) :> FileNode([t |-> "pdf", text |-> LongText, by |-> <<>>]))

RagQuestions == {<<"q">>, <<"q", "q">>, <<"q", "q", "q">>}

RagInit ==
    /\ fs = RagFS /\ resp = NoResponse /\ uuids = 0 /\ log = <<>>
    /\ ConfIdle /\ SearchIdle /\ LlmIdle /\ ChunkIdle /\ RaceIdle

\* embedChunks(chunkText(text), name) for a document of data/documents:
\* the offline embedding step, embedChunks called as it is defined.
RagEmbed(name) ==
    /\ Exists(fs, Append(DOCUMENTS_DIR, name))
    /\ fs' = embedChunksCall(fs,
               <<chunkTextDefault(extractTextFromPdf(fs, Append(DOCUMENTS_DIR, name))),
                 name>>).fs
    /\ resp' = NoResponse
    /\ UNCHANGED <<uuids, cIn, cOut, sIn, sOut, lIn, lOut, log, ck, procs>>

\* runRAGSystem(question, threshold=..., topK=...) without a session id
RagAsk(question, threshold, topK) ==
    /\ \E r \in runRAGSystem(fs, question, <<>>, threshold, topK) :
         /\ fs' = r.fs
         /\ resp' = IF r.ok
                    THEN Response("ask", 200, "ok", <<>>, <<>>, {}, r.value, r.gate, r.steps)
                    ELSE Response("ask", 500, r.exc, <<>>, <<>>, {}, NoValue, NoGate, r.steps)
    /\ UNCHANGED <<uuids, cIn, cOut, sIn, sOut, lIn, lOut, log, ck, procs>>

\* POST /api/chat with session_id ""
RagChat(question) ==
    /\ \E r \in chat(fs, question, <<>>) :
         /\ fs' = r.fs
         /\ resp' = r.resp
    /\ UNCHANGED <<uuids, cIn, cOut, sIn, sOut, lIn, lOut, log, ck, procs>>

RagNext ==
    \/ \E name \in {ShortDoc, LongDoc} : RagEmbed(name)
    \/ \E q \in RagQuestions, th \in Thresholds, k \in 1..MaxTopK : RagAsk(q, th, k)
    \/ \E q \in RagQuestions \cup {<<" ">>} : RagChat(q)

SpecRag == RagInit /\ [][RagNext]_vars

----------------------------------------------------------------------------
(* SpecIndex: embedChunks and buildFaissIndex called in any order over the *)
(* embeddings folder, the index kept in it or in a folder of its own       *)

EMBEDDINGS_DIR == <<N("embeddings")>>

INDEX_DIR == <<N("index")>>

\* index_dir as runRAGSystem passes it: the embeddings folder itself
\* (main.py line 67) or a separate folder (main.py line 69).
IndexDirs == {EMBEDDINGS_DIR, INDEX_DIR}

IndexFile(index_dir) == Append(index_dir, <<"faiss_index", ".bin">>)

MetadataFile(index_dir) == Append(index_dir, <<"metadata", ".json">>)

\* The folders before any call: an empty embeddings folder, or one that
\* holds a file buildFaissIndex does not accept (a 2-dimensional array, a
\* file that is not .npy) or a flat array of another length than the
\* embeddings, or no embeddings folder at all.
IndexStartFS ==
    LET base == (Root :> DirNode) @@ (INDEX_DIR :> DirNode)
        emb == base @@ (EMBEDDINGS_DIR :> DirNode)
        other == Append(EMBEDDINGS_DIR, <<"other">>)
    IN {base, emb,
        emb @@ (other :> DirNode)
            @@ (Append(other, ChunkFile(0)) :>
                  FileNode([t |-> "npy", ndim |-> 2, vec |-> <<>>])),
        emb @@ (other :> DirNode)
            @@ (Append(other, <<"notes", ".txt">>) :>
                  FileNode([t |-> "txt", ndim |-> 1, vec |-> <<>>])),
        emb @@ (other :> DirNode)
            @@ (Append(other, ChunkFile(0)) :>
                  FileNode([t |-> "npy", ndim |-> 1, vec |-> <<0, 0, 0>>]))}

\* Chunk lists of one and of two chunks, a chunk being its words.
IndexChunkLists == {<<<<"w">>>>, <<<<"w">>, <<"w", "w", "w">>>>}

IndexDocs == {ShortDoc, LongDoc}

\* The (folder, file) pairs of the embeddings folder that lines 30-36 of
\* buildFaissIndex accept.
AcceptedVectors(f, folder) ==
    {pr \in {<<d, c>> : d \in ListDir(f, folder),
                        c \in UNION {ListDir(f, Append(folder, x)) : x \in ListDir(f, folder)}} :
        /\ IsDir(f, Append(folder, pr[1]))
        /\ Exists(f, folder \o <<pr[1], pr[2]>>)
        /\ EndsWith(pr[2], ".npy")
        /\ f[folder \o <<pr[1], pr[2]>>].data.ndim = 1}

CallRecord(op, index_dir, had, n, r) ==
    [op |-> op, index_dir |-> index_dir, had |-> had, n |-> n, ok |-> r.ok,
     exc |-> r.exc, built |-> r.built, index |-> r.index, metadata |-> r.metadata]

IndexInit ==
    /\ fs \in IndexStartFS /\ resp = NoResponse /\ uuids = 0 /\ log = <<>>
    /\ ConfIdle /\ SearchIdle /\ LlmIdle /\ ChunkIdle /\ RaceIdle

\* embedChunks(chunks, name)
IndexEmbed(chunks, name) ==
    /\ Len(log) < MaxCalls
    /\ LET r == embedChunksCall(fs, <<chunks, name>>)
       IN /\ fs' = r.fs
          /\ log' = Append(log, CallRecord("embed", <<>>, FALSE, Len(chunks),
                              [ok |-> r.ok, exc |-> r.exc, built |-> FALSE,
                               index |-> <<>>, metadata |-> <<>>]))
    /\ UNCHANGED <<resp, uuids, cIn, cOut, sIn, sOut, lIn, lOut, ck, procs>>

\* buildFaissIndex(EMBEDDINGS_DIR, index_dir)
IndexBuild(index_dir) ==
    /\ Len(log) < MaxCalls
    /\ \E r \in buildFaissIndex(fs, EMBEDDINGS_DIR, index_dir) :
         /\ fs' = r.fs
         /\ log' = Append(log, CallRecord("build", index_dir,
                             Exists(fs, IndexFile(index_dir))
                                /\ Exists(fs, MetadataFile(index_dir)),
                             Cardinality(AcceptedVectors(fs, EMBEDDINGS_DIR)), r))
    /\ UNCHANGED <<resp, uuids, cIn, cOut, sIn, sOut, lIn, lOut, ck, procs>>

IndexNext ==
    \/ \E chunks \in IndexChunkLists, name \in IndexDocs : IndexEmbed(chunks, name)
    \/ \E index_dir \in IndexDirs : IndexBuild(index_dir)

SpecIndex == IndexInit /\ [][IndexNext]_vars

----------------------------------------------------------------------------
(* SpecChunk: chunkText run statement by statement, for every bounded text *)
(* and every chunkSize and overlap, overlap >= chunkSize included          *)

\* Python's seq[a:b]: a negative bound counts from the end, and both
\* bounds are clipped to the list.
PySlice(seq, a, b) ==
    LET clip(x) == IF x < 0 THEN (IF Len(seq) + x < 0 THEN 0 ELSE Len(seq) + x)
                   ELSE Min(x, Len(seq))
    IN SubSeq(seq, clip(a) + 1, clip(b))

\* " ".join(words)
RECURSIVE PyJoin(_)
PyJoin(words) ==
    IF Len(words) <= 1 THEN words
    ELSE <<Head(words), " ">> \o PyJoin(Tail(words))

\* Line 20: start += chunkSize - overlap
NextStartNoOverlap(start, chunkSize, overlap) == start + chunkSize

NextStart(start, chunkSize, overlap) == start + chunkSize - overlap

\* The loop is followed for at most MaxIterations rounds.
MaxIterations == MaxTextLen + 2

ChunkTexts == SeqsUpTo({"a", "b", " "}, MaxTextLen)

ChunkInit ==
    /\ ck \in [text : ChunkTexts, chunkSize : 1..MaxChunkSize,
               overlap : 0..MaxChunkSize, pc : {"split"}, words : {<<>>},
               start : {0}, chunks : {<<>>}]
    /\ ConfIdle /\ SearchIdle /\ LlmIdle /\ StoreIdle /\ RaceIdle

\* Lines 10-15: normalise, split, chunks = [], start = 0
ChunkSplit ==
    /\ ck.pc = "split"
    /\ ck' = [ck EXCEPT !.pc = "loop", !.words = SplitWords(ck.text)]
    /\ UNCHANGED <<cIn, cOut, sIn, sOut, lIn, lOut, fs, resp, uuids, log, procs>>

\* Lines 16-20: one round of the while loop
ChunkIterate ==
    /\ ck.pc = "loop"
    /\ ck.start < Len(ck.words)
    /\ Len(ck.chunks) < MaxIterations
    /\ ck' = [ck EXCEPT
                !.chunks = Append(@, PyJoin(PySlice(ck.words, ck.start,
                                                    ck.start + ck.chunkSize))),
                !.start = NextStart(ck.start, ck.chunkSize, ck.overlap)]
    /\ UNCHANGED <<cIn, cOut, sIn, sOut, lIn, lOut, fs, resp, uuids, log, procs>>

\* Line 21: the loop condition fails, chunks is returned
ChunkReturn ==
    /\ ck.pc = "loop"
    /\ ~(ck.start < Len(ck.words))
    /\ ck' = [ck EXCEPT !.pc = "done"]
    /\ UNCHANGED <<cIn, cOut, sIn, sOut, lIn, lOut, fs, resp, uuids, log, procs>>

ChunkNext == ChunkSplit \/ ChunkIterate \/ ChunkReturn

SpecChunk == ChunkInit /\ [][ChunkNext]_vars

----------------------------------------------------------------------------
(* SpecBuildRace: buildFaissIndex run by several processes at once on the  *)
(* same folders, each statement that touches the filesystem a step         *)

Procs == 1..MaxProcs

\* The embeddings folder after two one-chunk documents were embedded.
RaceFS ==
    LET base == (Root :> DirNode) @@ (INDEX_DIR :> DirNode)
    IN embedChunks(embedChunks(base, <<<<"w">>>>, ShortDoc).fs,
                   <<<<"w", "w", "w">>>>, LongDoc).fs

BuildStart(index_dir) ==
    [pc |-> "check", index_dir |-> index_dir, rows |-> <<>>, metadata |-> <<>>,
     from |-> <<0, 0>>, exc |-> "none", built |-> FALSE]

BuildRaceInit ==
    /\ fs = RaceFS
    /\ \E index_dir \in IndexDirs : procs = [p \in Procs |-> BuildStart(index_dir)]
    /\ resp = NoResponse /\ uuids = 0 /\ log = <<>>
    /\ ConfIdle /\ SearchIdle /\ LlmIdle /\ ChunkIdle

\* Line 18: do both files exist?
BuildCheck(p) ==
    /\ procs[p].pc = "check"
    /\ procs' = [procs EXCEPT ![p].pc =
                    IF /\ Exists(fs, IndexFile(procs[p].index_dir))
                       /\ Exists(fs, MetadataFile(procs[p].index_dir))
                    THEN "read_index" ELSE "list"]
    /\ UNCHANGED <<fs, cIn, cOut, sIn, sOut, lIn, lOut, resp, uuids, log, ck>>

\* Line 20: faiss.read_index; a file still being written does not parse.
BuildReadIndex(p) ==
    /\ procs[p].pc = "read_index"
    /\ LET file == fs[IndexFile(procs[p].index_dir)].data
       IN procs' = [procs EXCEPT ![p] =
                       IF file.partial
                       THEN [@ EXCEPT !.pc = "raised", !.exc = "RuntimeError"]
                       ELSE [@ EXCEPT !.pc = "read_meta", !.rows = file.rows,
                                      !.from = <<file.writer, 0>>]]
    /\ UNCHANGED <<fs, cIn, cOut, sIn, sOut, lIn, lOut, resp, uuids, log, ck>>

\* Lines 21-23: json.load; an empty file does not parse.
BuildReadMeta(p) ==
    /\ procs[p].pc = "read_meta"
    /\ LET file == fs[MetadataFile(procs[p].index_dir)].data
       IN procs' = [procs EXCEPT ![p] =
                       IF file.partial
                       THEN [@ EXCEPT !.pc = "raised", !.exc = "JSONDecodeError"]
                       ELSE [@ EXCEPT !.pc = "returned", !.metadata = file.entries,
                                      !.from = <<procs[p].from[1], file.writer>>]]
    /\ UNCHANGED <<fs, cIn, cOut, sIn, sOut, lIn, lOut, resp, uuids, log, ck>>

\* Lines 25-47: the vectors are collected in listing order and stacked.
BuildList(p) ==
    /\ procs[p].pc = "list"
    /\ \E order \in Listings(fs, EMBEDDINGS_DIR) :
         LET metadata == SelectSeq(order, LAMBDA pr :
                 EndsWith(pr[2], ".npy")
                 /\ fs[EMBEDDINGS_DIR \o <<pr[1], pr[2]>>].data.ndim = 1)
         IN procs' = [procs EXCEPT ![p] =
                IF metadata = <<>>
                THEN [@ EXCEPT !.pc = "raised", !.exc = "ValueError"]
                ELSE [@ EXCEPT !.pc = "write_index", !.metadata = metadata,
                               !.rows = [i \in DOMAIN metadata |->
                                   fs[EMBEDDINGS_DIR \o <<metadata[i][1], metadata[i][2]>>].data.vec]]]
    /\ UNCHANGED <<fs, cIn, cOut, sIn, sOut, lIn, lOut, resp, uuids, log, ck>>

\* Line 51, first half: faiss.write_index opens and truncates the file.
BuildWriteIndexOpen(p) ==
    /\ procs[p].pc = "write_index"
    /\ fs' = WriteFile(fs, IndexFile(procs[p].index_dir),
                       [t |-> "index", rows |-> <<>>, writer |-> p, partial |-> TRUE])
    /\ procs' = [procs EXCEPT ![p].pc = "write_index_body"]
    /\ UNCHANGED <<cIn, cOut, sIn, sOut, lIn, lOut, resp, uuids, log, ck>>

\* Line 51, second half: the index is written out and the file closed.
BuildWriteIndexBody(p) ==
    /\ procs[p].pc = "write_index_body"
    /\ fs' = WriteFile(fs, IndexFile(procs[p].index_dir),
                       [t |-> "index", rows |-> procs[p].rows, writer |-> p,
                        partial |-> FALSE])
    /\ procs' = [procs EXCEPT ![p].pc = "write_meta"]
    /\ UNCHANGED <<cIn, cOut, sIn, sOut, lIn, lOut, resp, uuids, log, ck>>

\* Line 52: open(metadata_file, "w") creates or truncates the file.
BuildWriteMetaOpen(p) ==
    /\ procs[p].pc = "write_meta"
    /\ fs' = WriteFile(fs, MetadataFile(procs[p].index_dir),
                       [t |-> "json", entries |-> <<>>, writer |-> p, partial |-> TRUE])
    /\ procs' = [procs EXCEPT ![p].pc = "write_meta_body"]
    /\ UNCHANGED <<cIn, cOut, sIn, sOut, lIn, lOut, resp, uuids, log, ck>>

\* Lines 53-55: json.dump, close, return
BuildWriteMetaBody(p) ==
    /\ procs[p].pc = "write_meta_body"
    /\ fs' = WriteFile(fs, MetadataFile(procs[p].index_dir),
                       [t |-> "json", entries |-> procs[p].metadata, writer |-> p,
                        partial |-> FALSE])
    /\ procs' = [procs EXCEPT ![p] = [@ EXCEPT !.pc = "returned", !.built = TRUE,
                                                !.from = <<p, p>>]]
    /\ UNCHANGED <<cIn, cOut, sIn, sOut, lIn, lOut, resp, uuids, log, ck>>

BuildRaceNext ==
    \E p \in Procs :
        \/ BuildCheck(p)
        \/ BuildReadIndex(p)
        \/ BuildReadMeta(p)
        \/ BuildList(p)
        \/ BuildWriteIndexOpen(p)
        \/ BuildWriteIndexBody(p)
        \/ BuildWriteMetaOpen(p)
        \/ BuildWriteMetaBody(p)

SpecBuildRace == BuildRaceInit /\ [][BuildRaceNext]_vars

----------------------------------------------------------------------------
(* SpecUploadRace: saveUploadedPdf run by several processes at once for    *)
(* the same session, each statement that touches the filesystem a step     *)

RaceNames == {<<APdf>>, <<<<"a", "_", "1", ".pdf">>>>}

\* Process p uploads a document of p words.
RaceContent(p) == [i \in 1..p |-> "w"]

SaveStart(p, filename) ==
    [pc |-> "validate", exc |-> "none",
     file |-> [filename |-> filename, oversize |-> FALSE, content |-> RaceContent(p)],
     file_path |-> <<>>, base_name |-> <<>>, extension |-> <<>>, counter |-> 0]

UploadRaceInit ==
    /\ fs = StoreFS
    /\ \E names \in [Procs -> RaceNames] :
          procs = [p \in Procs |-> SaveStart(p, names[p])]
    /\ resp = NoResponse /\ uuids = 0 /\ log = <<>>
    /\ ConfIdle /\ SearchIdle /\ LlmIdle /\ ChunkIdle

\* Lines 32-35: validation; the session id is given
SaveValidate(p) ==
    /\ procs[p].pc = "validate"
    /\ procs' = [procs EXCEPT ![p] =
                    IF validatePdfFile(procs[p].file) = "ok"
                    THEN [@ EXCEPT !.pc = "mkdir"]
                    ELSE [@ EXCEPT !.pc = "raised",
                                   !.exc = validatePdfFile(procs[p].file)]]
    /\ UNCHANGED <<fs, cIn, cOut, sIn, sOut, lIn, lOut, resp, uuids, log, ck>>

\* Lines 37-41: the session and uploads directories are made
SaveMkdir(p) ==
    /\ procs[p].pc = "mkdir"
    /\ LET session_dir == Join(SESSIONS_DIR, <<UploadSession>>)
           target == Join(Join(session_dir, <<N("uploads")>>), procs[p].file.filename)
           made == MkdirP(MkdirP(fs, session_dir).fs, Parent(target))
       IN /\ fs' = made.fs
          /\ procs' = [procs EXCEPT ![p] =
                          IF made.ok THEN [@ EXCEPT !.pc = "exists", !.file_path = target]
                          ELSE [@ EXCEPT !.pc = "raised", !.exc = "FileExistsError"]]
    /\ UNCHANGED <<cIn, cOut, sIn, sOut, lIn, lOut, resp, uuids, log, ck>>

\* Lines 44-47: if file_path.exists(): base_name, extension, counter = 1
SaveExists(p) ==
    /\ procs[p].pc = "exists"
    /\ procs' = [procs EXCEPT ![p] =
                    IF Exists(fs, Resolve(fs, procs[p].file_path))
                    THEN [@ EXCEPT !.pc = "probe", !.counter = 1,
                             !.base_name = Stem(procs[p].file_path[Len(procs[p].file_path)]),
                             !.extension = Suffix(procs[p].file_path[Len(procs[p].file_path)])]
                    ELSE [@ EXCEPT !.pc = "open"]]
    /\ UNCHANGED <<fs, cIn, cOut, sIn, sOut, lIn, lOut, resp, uuids, log, ck>>

\* Lines 48-50: one test of the while condition, and one round if it holds
SaveProbe(p) ==
    /\ procs[p].pc = "probe"
    /\ procs' = [procs EXCEPT ![p] =
                    IF Exists(fs, Resolve(fs, procs[p].file_path))
                    THEN [@ EXCEPT !.counter = @ + 1,
                             !.file_path = Join(Parent(procs[p].file_path),
                                 <<procs[p].base_name \o <<"_", Str(procs[p].counter)>>
                                   \o procs[p].extension>>)]
                    ELSE [@ EXCEPT !.pc = "open"]]
    /\ UNCHANGED <<fs, cIn, cOut, sIn, sOut, lIn, lOut, resp, uuids, log, ck>>

\* Line 53: file_path.open("wb") creates or truncates the file
SaveOpen(p) ==
    /\ procs[p].pc = "open"
    /\ fs' = WriteFile(fs, Resolve(fs, procs[p].file_path),
                       [t |-> "pdf", text |-> <<>>, by |-> UploadSession])
    /\ procs' = [procs EXCEPT ![p].pc = "copy"]
    /\ UNCHANGED <<cIn, cOut, sIn, sOut, lIn, lOut, resp, uuids, log, ck>>

\* Lines 54-58: copyfileobj, close, return
SaveCopy(p) ==
    /\ procs[p].pc = "copy"
    /\ fs' = WriteFile(fs, Resolve(fs, procs[p].file_path),
                       [t |-> "pdf", text |-> procs[p].file.content, by |-> UploadSession])
    /\ procs' = [procs EXCEPT ![p].pc = "returned"]
    /\ UNCHANGED <<cIn, cOut, sIn, sOut, lIn, lOut, resp, uuids, log, ck>>

UploadRaceNext ==
    \E p \in Procs :
        \/ SaveValidate(p)
        \/ SaveMkdir(p)
        \/ SaveExists(p)
        \/ SaveProbe(p)
        \/ SaveOpen(p)
        \/ SaveCopy(p)

SpecUploadRace == UploadRaceInit /\ [][UploadRaceNext]_vars

----------------------------------------------------------------------------
(* The specifications of the pure functions *)

ConfInit ==
    /\ cIn \in ConfInputs /\ cOut = Pending
    /\ SearchIdle /\ LlmIdle /\ StoreIdle /\ ChunkIdle /\ RaceIdle

ConfNext == ConfApply

SpecConf == ConfInit /\ [][ConfNext]_vars

SearchInit ==
    /\ sIn \in SearchInputs /\ sOut = Pending
    /\ ConfIdle /\ LlmIdle /\ StoreIdle /\ ChunkIdle /\ RaceIdle

SearchNext == SearchApply

SpecSearch == SearchInit /\ [][SearchNext]_vars

LlmInit ==
    /\ lIn \in LlmInputs /\ lOut = Pending
    /\ ConfIdle /\ SearchIdle /\ StoreIdle /\ ChunkIdle /\ RaceIdle

LlmNext == LlmApply

SpecLLM == LlmInit /\ [][LlmNext]_vars

----------------------------------------------------------------------------
(* Properties *)

AfterGate == resp.op \in {"ask", "chat"} /\ "gate" \in Range(resp.steps)

\* C1: a request whose confidence gate says "not confident" returns the
\* refusal message and runs no generation step; a generation step only ever
\* runs after the gate, and only when the gate said "confident".
C1_GateBeforeGeneration ==
    AfterGate =>
        /\ resp.status = 200
        /\ ~resp.gate.isConfident =>
              /\ resp.value = generateRefusalMessage
              /\ "generate" \notin Range(resp.steps)
        /\ \A i \in DOMAIN resp.steps :
              resp.steps[i] = "generate" =>
                 /\ resp.gate.isConfident
                 /\ \E j \in 1..(i - 1) : resp.steps[j] = "gate"

\* C1 witness: a chat request was refused by the gate.
C1_Witness ==
    /\ AfterGate /\ resp.op = "chat"
    /\ ~resp.gate.isConfident
    /\ resp.value = generateRefusalMessage

\* C2 (as claimed): a search over N >= 1 vectors with topK = k returns at
\* most min(k, N) results.
C2_AtMostMinKN ==
    sOut.done => Len(sOut.r) <= Min(sIn.topK, Len(sIn.rows))

\* A path lies in the tree of session `sid` when sid names a directory of
\* SESSIONS_DIR and the path is that directory or below it.
InSessionTree(sid, p) ==
    /\ sid \notin {<<>>, DotDot}
    /\ IsPrefix(Append(SESSIONS_DIR, sid), p)

\* C3 (as claimed): a request for a session creates, changes or removes
\* only paths inside the tree of that session (SESSIONS_DIR and the
\* directories above it may be created on the way).
C3_OnlySessionTree ==
    [][\A p \in DOMAIN fs \cup DOMAIN fs' :
          (\/ (p \in DOMAIN fs) # (p \in DOMAIN fs')
           \/ (p \in DOMAIN fs /\ p \in DOMAIN fs' /\ fs[p] # fs'[p]))
          => (InSessionTree(resp'.session_id, p) \/ IsPrefix(p, SESSIONS_DIR))]_vars

UploadsDir == Join(SESSIONS_DIR, <<UploadSession, N("uploads")>>)

\* name, name_1, name_2, ... : the j-th candidate of a filename.
Candidate(name, j) ==
    IF j = 0 THEN name ELSE Stem(name) \o <<"_", Str(j)>> \o Suffix(name)

\* The paths stored by the uploads before the i-th.
StoredBefore(i) == {log[j].stored : j \in 1..(i - 1)}

\* C4 (as claimed): the first upload of a filename is stored under that
\* name and its k-th upload under name_{k-1}.
C4_KthUploadSuffix ==
    \A i \in DOMAIN log :
        LET k == 1 + Cardinality({j \in 1..(i - 1) : log[j].name = log[i].name})
        IN log[i].stored = Append(UploadsDir, Candidate(log[i].name, k - 1))

\* C4 (amended): every upload is stored under the first of name, name_1,
\* name_2, ... that no earlier upload of the session was stored under; the
\* stored paths are pairwise distinct and every stored file still holds the
\* content it was uploaded with.
C4_NoOverwrite ==
    /\ \A i \in DOMAIN log :
          \E j \in 0..(i - 1) :
             /\ log[i].stored = Append(UploadsDir, Candidate(log[i].name, j))
             /\ \A h \in 0..(j - 1) :
                   Append(UploadsDir, Candidate(log[i].name, h)) \in StoredBefore(i)
             /\ log[i].stored \notin StoredBefore(i)
    /\ \A i, j \in DOMAIN log : i # j => log[i].stored # log[j].stored
    /\ \A i \in DOMAIN log :
          /\ log[i].stored \in FilesOf(fs)
          /\ fs[log[i].stored].data.text = log[i].content

\* C4 witness: the same filename was uploaded twice, with different
\* contents, and the second upload went to name_1.
C4_Witness ==
    \E i, j \in DOMAIN log :
        /\ i < j /\ log[i].name = log[j].name /\ log[i].content # log[j].content
        /\ log[i].stored = Append(UploadsDir, log[i].name)
        /\ log[j].stored = Append(UploadsDir, Candidate(log[j].name, 1))

\* C5 (as claimed): delete(id) answers 200 exactly when the session
\* directory existed; after it no file written for that session is left
\* anywhere, listFiles(id) is empty and another delete(id) returns false.
C5_DeleteRemovesAll ==
    [][resp'.op = "delete" =>
          LET sid == resp'.session_id
          IN /\ (resp'.status = 200) <=>
                   Exists(fs, Resolve(fs, Join(SESSIONS_DIR, <<sid>>)))
             /\ resp'.status = 200 =>
                   /\ \A p \in FilesOf(fs') : fs'[p].data.by # sid
                   /\ getSessionFiles(fs', sid) = {}
                   /\ ~deleteSession(fs', sid).ret]_vars

\* C6 (as claimed): an upload that passes validation and is saved ends in
\* success, the stored file among files_in_session.
C6_ValidUploadSucceeds ==
    (resp.op = "upload" /\ resp.file_path # <<>>) =>
        /\ resp.status = 200
        /\ resp.file_path[Len(resp.file_path)] \in resp.files

\* What the claim counts as a failure of the generation call.
GenerationFailed(outcome) ==
    \/ outcome.kind = "raise"
    \/ outcome.code \notin {200, 204}
    \/ outcome.body # "text"
    \/ Strip(outcome.text) = <<>>

\* C7 (as claimed): with a non-empty context every failure of the
\* generation call yields the context-dump fallback over the given chunks.
C7_FailureFallsBack ==
    (lOut.done /\ lIn.ctx # <<>> /\ GenerationFailed(lIn.outcome)) =>
        lOut.r = generateAnswerFallback(lIn.ctx, lIn.question, 1)

\* C8 (as claimed): an empty or whitespace-only question is answered with
\* a 4xx status and runs no pipeline step.
C8_EmptyQuestion4xx ==
    (resp.op = "chat" /\ resp.detail = "Question cannot be empty") =>
        /\ resp.status \in 400..499
        /\ resp.steps = <<>>

\* A session without documents: no uploads directory, or an empty one.
NoDocuments(f, sid) ==
    LET uploads_dir == Resolve(f, Join(SESSIONS_DIR, <<sid, N("uploads")>>))
    IN ~IsDir(f, uploads_dir) \/ ListDir(f, uploads_dir) = {}

\* C9 (as claimed): a question put to a session without documents gets the
\* "no documents" message as a normal response.
C9_NoDocumentsMessage ==
    (/\ resp.op = "chat" /\ resp.detail # "Question cannot be empty"
     /\ NoDocuments(fs, resp.session_id)) =>
        /\ resp.status = 200
        /\ resp.value = NoDocumentsMessage

\* Product of 1 + d over the distances of ds, position `skip` left out.
RECURSIVE ProdExcept(_, _, _)
ProdExcept(ds, skip, i) ==
    IF i > Len(ds) THEN 1
    ELSE (IF i = skip THEN 1 ELSE 1 + ds[i]) * ProdExcept(ds, skip, i + 1)

RECURSIVE SumOfProds(_, _)
SumOfProds(ds, i) ==
    IF i > Len(ds) THEN 0 ELSE ProdExcept(ds, i, 1) + SumOfProds(ds, i + 1)

LastCall == log[Len(log)]

\* C11: a call of buildFaissIndex that built the index, followed at once
\* by another call on the same directory: the second call succeeds without
\* building and returns the same metadata entries in the same order and an
\* index of as many rows.
C11_RoundTrip ==
    \A i \in DOMAIN log :
        (/\ i + 1 \in DOMAIN log
         /\ log[i].op = "build" /\ log[i].built
         /\ log[i + 1].op = "build" /\ log[i + 1].index_dir = log[i].index_dir) =>
            /\ log[i + 1].ok /\ ~log[i + 1].built
            /\ Len(log[i + 1].metadata) = Len(log[i].metadata)
            /\ log[i + 1].metadata = log[i].metadata
            /\ Len(log[i + 1].index) = Len(log[i].index)
            /\ Len(log[i].index) = Len(log[i].metadata)

\* C11 witness: an index of two vectors or more was built and loaded again
\* by the next call.
C11_Witness ==
    \E i \in DOMAIN log :
        /\ i + 1 \in DOMAIN log
        /\ log[i].op = "build" /\ log[i].built /\ Len(log[i].metadata) >= 2
        /\ log[i + 1].op = "build" /\ log[i + 1].index_dir = log[i].index_dir
        /\ log[i + 1].ok

\* C12: a call of buildFaissIndex that finds both files in index_dir
\* returns their contents and leaves the filesystem as it was, whatever the
\* embeddings folder holds; and once both files exist no embedding and no
\* later call changes them.
C12_LoadWritesNothing ==
    [][/\ (log' # log /\ log'[Len(log')].op = "build" /\ log'[Len(log')].had) =>
             LET call == log'[Len(log')]
             IN /\ fs' = fs
                /\ call.ok
                /\ call.index = fs[IndexFile(call.index_dir)].data.rows
                /\ call.metadata = fs[MetadataFile(call.index_dir)].data.entries
       /\ \A d \in IndexDirs :
             (Exists(fs, IndexFile(d)) /\ Exists(fs, MetadataFile(d))) =>
                /\ Exists(fs', IndexFile(d)) /\ Exists(fs', MetadataFile(d))
                /\ fs'[IndexFile(d)] = fs[IndexFile(d)]
                /\ fs'[MetadataFile(d)] = fs[MetadataFile(d)]]_vars

\* C12 witness: an index was loaded although the embeddings folder held
\* more vectors than the index has rows.
C12_Witness ==
    /\ log # <<>>
    /\ LastCall.op = "build" /\ LastCall.had /\ LastCall.ok
    /\ LastCall.n > Len(LastCall.index)
    /\ fs[MetadataFile(LastCall.index_dir)].data.entries = LastCall.metadata

C14_EmbedIntoSessionDir ==
    (resp.op = "upload" /\ "embed" \in Range(resp.steps)) =>
        LET session_dir == Join(SESSIONS_DIR, <<resp.session_id>>)
            ingested == ingestDocuments(fs, Join(session_dir, <<N("uploads")>>))
        IN /\ ingested.ok
           /\ \A name \in DOMAIN ingested.documents :
                 \A i \in 0..(Len(chunkTextDefault(ingested.documents[name])) - 1) :
                    Exists(fs, Resolve(fs, Join(session_dir,
                                   <<N("embeddings"), name, ChunkFile(i)>>)))

\* The words of the whitespace-normalised input of the running call.
NormalWords == SelectSeq(ck.text, LAMBDA t : t # " ")

CeilDiv(a, b) == (a + b - 1) \div b

\* C15: for overlap < chunkSize and a text of N >= 1 words chunkText
\* returns ceil(N / (chunkSize - overlap)) chunks, chunk i being the words
\* at positions [i * step, min(N, i * step + chunkSize)) joined by single
\* spaces; every word, in order, is in some chunk.
C15_ChunkWindows ==
    (ck.pc = "done" /\ ck.overlap < ck.chunkSize /\ NormalWords # <<>>) =>
        LET W == NormalWords
            step == ck.chunkSize - ck.overlap
            lo(i) == i * step
            hi(i) == Min(Len(W), i * step + ck.chunkSize)
        IN /\ Len(ck.chunks) = CeilDiv(Len(W), step)
           /\ \A i \in 0..(Len(ck.chunks) - 1) :
                 /\ Len(ck.chunks[i + 1]) = 2 * (hi(i) - lo(i)) - 1
                 /\ \A j \in 1..Len(ck.chunks[i + 1]) :
                       ck.chunks[i + 1][j] =
                          IF j % 2 = 1 THEN W[lo(i) + (j + 1) \div 2] ELSE " "
           /\ \A p \in 1..Len(W) :
                 \E i \in 0..(Len(ck.chunks) - 1) : lo(i) < p /\ p <= hi(i)

\* C15 witness: a text of three words or more was cut into overlapping
\* chunks, the last one shorter than chunkSize.
C15_Witness ==
    /\ ck.pc = "done" /\ ck.overlap > 0 /\ ck.overlap < ck.chunkSize
    /\ Len(NormalWords) >= 3 /\ Len(ck.chunks) >= 2
    /\ Len(ck.chunks[Len(ck.chunks)]) < 2 * ck.chunkSize - 1

\* C16 (as claimed): with overlap >= chunkSize the call is rejected before
\* the loop is entered, and the chunk list never grows beyond one chunk
\* per word.
C16_RejectsBadOverlap ==
    /\ ck.overlap >= ck.chunkSize => ck.pc = "split"
    /\ Len(ck.chunks) <= Len(ck.words)

Building == {"list", "write_index", "write_index_body", "write_meta", "write_meta_body"}

\* C17 (as claimed): of the processes that call buildFaissIndex on the
\* same folders at most one is building at any time; no caller fails on a
\* file that is still being written, and a caller that loaded has an index
\* and a metadata list written by the same build.
C17_OneBuildInFlight ==
    /\ Cardinality({p \in Procs : procs[p].pc \in Building}) <= 1
    /\ \A p \in Procs :
          /\ procs[p].pc = "raised" =>
                procs[p].exc \notin {"RuntimeError", "JSONDecodeError"}
          /\ procs[p].pc = "returned" => procs[p].from[1] = procs[p].from[2]

\* C18 (as claimed): the uploads that have returned were stored under
\* pairwise distinct paths, and each stored file holds the content that
\* was uploaded.
C18_DistinctNames ==
    \A p \in Procs :
        procs[p].pc = "returned" =>
            /\ fs[Resolve(fs, procs[p].file_path)].data.text = procs[p].file.content
            /\ \A q \in Procs \ {p} :
                  procs[q].pc = "returned" =>
                     Resolve(fs, procs[q].file_path) # Resolve(fs, procs[p].file_path)

\* An upload the claim counts as rejected: no filename, an extension other
\* than .pdf, or a size above the ceiling.
RejectedFile(file) ==
    \/ file.filename = <<>>
    \/ ~LowerEndsWith(file.filename[Len(file.filename)], ".pdf")
    \/ file.oversize

\* C19: an upload that fails validation is answered with status 400 and
\* changes nothing: no file or directory is created and no session id is
\* generated.
C19_RejectedUploadWritesNothing ==
    [][\A file \in UploadFiles, session_id \in ClientSids \cup {<<>>} :
          (RejectedFile(file) /\ Upload(file, session_id)) =>
             /\ resp'.op = "upload" /\ resp'.status = 400
             /\ fs' = fs
             /\ uuids' = uuids
             /\ resp'.session_id = session_id]_vars

\* C19 witness: an oversized upload was rejected while the store held a
\* session already.
C19_Witness ==
    /\ resp.op = "upload" /\ resp.status = 400
    /\ resp.detail = "File size exceeds limit"
    /\ FilesOf(fs) # {}

\* C20 (as claimed): the triples searchFaiss returns are in ascending order
\* of distance, and the distance of each is the squared L2 distance from
\* the query to the row whose metadata entry the triple names, for every
\* index size and topK.
C20_OrderedAttributed ==
    sOut.done =>
        /\ \A r \in 1..(Len(sOut.r) - 1) : sOut.r[r][3] <= sOut.r[r + 1][3]
        /\ \A r \in DOMAIN sOut.r :
              \E i \in DOMAIN sIn.rows :
                 /\ MetaFor(sIn.rows)[i] = <<sOut.r[r][1], sOut.r[r][2]>>
                 /\ sOut.r[r][3] = L2sq(sIn.rows[i], sIn.q)

\* Row i of `rows` is the vector stored in the chunk file that entry i of
\* `metadata` names, and there are as many entries as rows.
RowsMatch(rows, metadata) ==
    /\ Len(rows) = Len(metadata)
    /\ \A i \in DOMAIN metadata :
          LET file == EMBEDDINGS_DIR \o <<metadata[i][1], metadata[i][2]>>
          IN Exists(fs, file) /\ fs[file].data.vec = rows[i]

\* C21: after any sequence of builds and loads, every pair persisted in an
\* index directory and every pair a call returned has as many metadata
\* entries as index rows, entry i naming the document and chunk file whose
\* vector is row i.
C21_MetadataMatchesRows ==
    /\ \A d \in IndexDirs :
          (Exists(fs, IndexFile(d)) \/ Exists(fs, MetadataFile(d))) =>
             /\ Exists(fs, IndexFile(d)) /\ Exists(fs, MetadataFile(d))
             /\ RowsMatch(fs[IndexFile(d)].data.rows, fs[MetadataFile(d)].data.entries)
    /\ \A i \in DOMAIN log :
          (log[i].op = "build" /\ log[i].ok) =>
             RowsMatch(log[i].index, log[i].metadata)

\* C21 witness: an index of two different vectors or more was persisted
\* and a later call loaded it.
C21_Witness ==
    \E i \in DOMAIN log :
        /\ log[i].op = "build" /\ log[i].ok /\ log[i].had /\ ~log[i].built
        /\ Len(log[i].index) >= 2
        /\ log[i].index[1] # log[i].index[2]
        /\ fs[IndexFile(log[i].index_dir)].data.rows = log[i].index

\* The length D of the vectors createEmbedding returns.
EmbeddingDim == Len(createEmbedding(<<>>))

\* The stored vectors that are flat arrays of length D.
ValidVectors(f) ==
    {pr \in AcceptedVectors(f, EMBEDDINGS_DIR) :
        Len(f[EMBEDDINGS_DIR \o <<pr[1], pr[2]>>].data.vec) = EmbeddingDim}

\* C22 (as claimed): a build over a folder that holds at least one flat
\* D-length vector completes, and its metadata names exactly the flat
\* D-length vectors: every other stored array is skipped.
C22_InvalidSkipped ==
    (/\ log # <<>> /\ LastCall.op = "build" /\ ~LastCall.had
     /\ ValidVectors(fs) # {}) =>
        /\ LastCall.ok
        /\ Range(LastCall.metadata) = ValidVectors(fs)

\* C23 (as claimed): whenever the gate of a question is confident, the
\* external generation capability of llm.py is invoked, once, and the
\* answer is its generated text or its context-dump fallback.
C23_ExternalGeneration ==
    (AfterGate /\ resp.status = 200 /\ resp.gate.isConfident) =>
        /\ Cardinality({i \in DOMAIN resp.steps : resp.steps[i] = "llm"}) = 1
        /\ resp.value.kind \in {"text", "fallback"}

\* The ids of the sessions a client can have: the plain id and the ids
\* handed out.
PlainSids == {N("s1")} \cup {Uuid(n) : n \in 1..MaxUuids}

\* C24 (as claimed): for every session whose uploads directory exists, the
\* filenames ingestDocuments reads from it are the filenames
\* getSessionFiles lists.
C24_IngestedEqualsListed ==
    \A sid \in PlainSids :
        LET uploads == Join(SESSIONS_DIR, <<sid, N("uploads")>>)
        IN IsDir(fs, Resolve(fs, uploads)) =>
              /\ ingestDocuments(fs, uploads).ok
              /\ DOMAIN ingestDocuments(fs, uploads).documents
                    = getSessionFiles(fs, sid)

\* C25 (as claimed): an upload that ends in an error leaves every session
\* as it was: no file is added and getSessionFiles lists what it listed
\* before.
C25_FailedUploadLeavesSession ==
    [][(resp'.op = "upload" /\ resp'.status # 200) =>
          /\ FilesOf(fs') = FilesOf(fs)
          /\ \A sid \in PlainSids :
                getSessionFiles(fs', sid) = getSessionFiles(fs, sid)]_vars

====
